---- MODULE Spec2Model ----
(***************************************************************************)
(* A model of the in-browser SQL lab: the query-cell list of the Index     *)
(* page (src/src/pages/Index.tsx) with its editors and history log, and    *)
(* the CSV import pipeline (Index.handleImportCSV and                      *)
(* src/src/lib/duckdb.ts importCSVFile) over an abstract engine catalog.   *)
(*                                                                         *)
(* React state is modelled as the state itself (cells, isInitialized,      *)
(* queryHistory) plus the closures handlers run with: `rendered` is what   *)
(* the last committed render closed over, `mounted` what each Monaco       *)
(* editor captured in onMount, `timers` what each pending setTimeout       *)
(* callback captured.  State updates written setX(prev => ...) read the    *)
(* state; everything a handler reads from a plain identifier reads its     *)
(* closure.                                                                *)
(***************************************************************************)
EXTENDS Integers, Sequences, FiniteSets, TLC

(***************************************************************************)
(* Bounds of the model.                                                    *)
(***************************************************************************)
\* cells appended after the initial one
MaxAdds == 2
\* calls of handleExecuteQuery
MaxRequests == 2
\* values Date.now() takes after page load
MaxClock == 3
\* edits of a query text
MaxEdits == 1
\* handlers run between two commits of a render
MaxStale == 2
\* events of a behaviour
MaxSteps == 6
\* rows of an imported file
MaxRows == 3
\* rows per INSERT of handleImportCSV (const batchSize = 1000), scaled down
rowsBatchSize == 2
\* rows per INSERT of importCSVFile (const batchSize = 500), scaled down
fileBatchSize == 2
\* columns of an imported file
MaxCols == 3
\* characters of a column name
MaxNameLen == 3
\* tokens of the varying part of a typed query
MaxSqlLen == 3
\* rows of the table opened in the table editor
MaxGridRows == 2
\* edits committed in the table editor
MaxCommits == 2
MaxCalls == 3
MaxNotebooks == 2
MaxTicks == 1

(***************************************************************************)
(* Query texts.  A text is the sequence of its tokens: a keyword, a name,  *)
(* a blank " ", a line break "\n", a parenthesis, an operator, or a quoted *)
(* literal (quotes included, content not empty).                           *)
(***************************************************************************)
initialQuery == <<"FROM", " ", "trains", ";">>
emptyQuery == <<>>
copyQuery == <<"COPY", " ", "(", "SELECT", " ", "1", ")", " ", "TO", " ", "'out.csv'">>
tableQuery == <<"SELECT", " ", "*", " ", "FROM", " ", "t", ";">>

\* the texts the assistant hands to onQuerySelect and the texts typed into an
\* editor, in the model
AIQueries == {copyQuery}
EditTexts == {emptyQuery, copyQuery}

\* \s
Blanks == {" ", "\n"}
\* "([^"]+)": the double-quoted literals of the model, and how
\* replace(/"([^"]+)"/g, "'$1'") rewrites each
DoubleQuoted == {"\"y\""}
singleQuoted(tok) == IF tok = "\"y\"" THEN "'y'" ELSE tok

\* /WHERE\s+.*?=\s*"([^"]+)"/gi matches somewhere in sql: WHERE at w, blanks
\* up to b, anything but a line break up to the = at e, blanks, and a
\* double-quoted literal at q
doubleQuotePattern(sql) ==
  \E w \in {k \in 1..Len(sql) : sql[k] = "WHERE"} :
    \E e \in {k \in (w + 2)..Len(sql) : sql[k] = "="} :
      \E q \in {k \in (e + 1)..Len(sql) : sql[k] \in DoubleQuoted} :
        \E b \in (w + 1)..(e - 1) :
          /\ \A k \in (w + 1)..b : sql[k] \in Blanks
          /\ \A k \in (b + 1)..(e - 1) : sql[k] # "\n"
          /\ \A k \in (e + 1)..(q - 1) : sql[k] \in Blanks

\* (sql.match(/\(/g) || []).length and the same for \)
countOf(sql, tok) == Cardinality({k \in 1..Len(sql) : sql[k] = tok})

NoText == <<"undefined">>

validateSQL(sql) ==
  IF doubleQuotePattern(sql)
  THEN [valid |-> FALSE, error |-> "DuckDB uses single quotes",
        suggestion |-> [k \in 1..Len(sql) |-> singleQuoted(sql[k])]]
  ELSE IF \A k \in 1..Len(sql) : sql[k] \in Blanks
  THEN [valid |-> FALSE, error |-> "Query cannot be empty", suggestion |-> NoText]
  ELSE IF countOf(sql, "(") # countOf(sql, ")")
  THEN [valid |-> FALSE, error |-> "Unmatched parentheses in query",
        suggestion |-> NoText]
  ELSE [valid |-> TRUE, error |-> "", suggestion |-> NoText]

\* cell.query.match(/COPY\s*\((.*?)\)\s*TO\s*['"](.+?)['"]/i) on the texts above
copyMatch(sql) == sql = copyQuery

\* result row lists the engine hands back
Results == {<<>>, <<"row">>}

VARIABLES
  cells,          \* useState<QueryCell[]>: the list of cells
  isInitialized,  \* useState(false)
  queryHistory,   \* useState<QueryHistoryItem[]>
  rendered,       \* cells and isInitialized as the last committed render saw them
  mounted,        \* per editor (by cell uid): the closure captured by onMount
  timers,         \* pending setTimeout callbacks of onRunQuery
  calls,          \* engine calls in flight, issued by handleExecuteQuery
  now,            \* Date.now()
  nextUid,        \* history variable: identity of the next cell object
  nreq,           \* history variable: number of handleExecuteQuery calls so far
  edits,          \* history variable: number of edits so far
  logged,         \* history variable: per request, the entries appended for it
  stale,          \* history variable: UI handlers run since the last commit
  steps,          \* history variable: events so far
  batching        \* whether several UI events may be handled before a commit

cellVars == <<cells, isInitialized, queryHistory, rendered, mounted, timers,
              calls, now, nextUid, nreq, edits, logged, stale, steps, batching>>

VARIABLES
  imp,            \* the arguments of the import, and the catalog it started on
  catalog,        \* the engine's catalog: per table name, whether it exists and its rows
  sent,           \* the statements handed to conn.query, in order, with their outcome
  pc,             \* where the import is in its code
  pos,            \* rows handled so far: the loop index i, the rows Papa has parsed
  created,        \* let created of importCSVFile
  error,          \* the error handleImportCSV threw
  tables          \* useState<TableInfo[]>: the table names of the sidebar

importVars == <<imp, catalog, sent, pc, pos, created, error, tables>>

VARIABLES
  colIn,          \* columns: the column names handed to the import
  colSafe,        \* sanitizedColumns
  colOut,         \* uniqueColumns: the names the table is created with
  colPass         \* how often the names went through sanitize and de-duplicate

nameVars == <<colIn, colSafe, colOut, colPass>>

VARIABLES
  dialog          \* the import dialog: the parse of its file, importing, the toast shown

VARIABLES
  grid            \* the table editor: its table in the engine, the page shown, the edit

VARIABLES
  infer           \* the values of one column of data, opts.allVarchar, the type declared

\* the variables outside the cell list and the import
VARIABLES
  duck,           \* lib/duckdb.ts: let db, let conn, and the calls in progress
  ai,             \* the AI settings dialog: its fields, its test, what was saved
  store           \* local storage under sqllab:notebooks:v1, and the calls made

moreVars == <<duck, ai, store>>

toolVars == <<nameVars, dialog, grid, infer, moreVars>>

\* no names are being computed
NamesIdle ==
  /\ colIn = <<>>
  /\ colSafe = <<>>
  /\ colOut = <<>>
  /\ colPass = 0

\* the import dialog is not in use
NoDialog ==
  [chosen |-> FALSE, large |-> FALSE, errors |-> FALSE, importing |-> FALSE,
   readWhole |-> FALSE, toast |-> "none"]

\* handleDeleteRows has not run
NoOutcome == [toast |-> "none", ticked |-> {}, deleted |-> {}, reported |-> 0]

\* no table editor is open
NoGrid ==
  [table |-> <<>>, rows |-> <<>>, editingCell |-> 0, updates |-> <<>>,
   loading |-> -1, committed |-> <<>>, currentPage |-> 0, selectedRows |-> <<>>,
   ticked |-> {}, outcome |-> NoOutcome]

\* no column is being declared
NoInfer == [data |-> <<>>, allVarchar |-> FALSE, type |-> "none"]

\* no call of lib/duckdb.ts has been made: db and conn are null
NoCall == [kind |-> "none", pc |-> "idle", handle |-> 0, result |-> 0]

NoDuck ==
  [db |-> 0, conn |-> 0, engines |-> 0, connections |-> 0,
   proc |-> [p \in 1..MaxCalls |-> NoCall]]

\* the AI settings dialog as its useState calls leave it, no configuration
\* having been saved before
NoAI ==
  [provider |-> "openai", apiKey |-> "", baseUrl |-> "https://api.openai.com/v1",
   model |-> "gpt-4o-mini", customModel |-> "", isTesting |-> FALSE, testSuccess |-> FALSE,
   request |-> <<>>, tested |-> <<>>, saved |-> <<>>, toast |-> "none"]

\* nothing is stored under the key, and no call has been made
NoStore == [list |-> <<>>, now |-> 0, known |-> {}, docs |-> {}, last |-> <<>>]

MoreIdle == duck = NoDuck /\ ai = NoAI /\ store = NoStore

ToolIdle == NamesIdle /\ dialog = NoDialog /\ grid = NoGrid /\ infer = NoInfer /\ MoreIdle

(***************************************************************************)
(* Helpers on the cell list.                                               *)
(***************************************************************************)
\* what a render reads of a cell: its id, query and isExecuting (the results
\* only feed the views)
CellProps(c) == [id |-> c.id, query |-> c.query, isExecuting |-> c.isExecuting,
                 uid |-> c.uid]

\* Array.prototype.find on ids: the first cell with that id
HasCell(cs, cellId) == \E i \in 1..Len(cs) : cs[i].id = cellId
FindCell(cs, cellId) ==
  cs[CHOOSE i \in 1..Len(cs) :
       cs[i].id = cellId /\ \A j \in 1..(i-1) : cs[j].id # cellId]

Uids(cs) == {cs[i].uid : i \in 1..Len(cs)}

(***************************************************************************)
(* Closures.                                                               *)
(***************************************************************************)
\* what handleExecuteQuery(cellId) reads from the render it was created in;
\* origin (a history value) is the cell whose trigger holds the closure
ExecClosure(r, cellId, origin) ==
  [cellId |-> cellId,
   origin |-> origin,
   init |-> r.isInitialized,
   found |-> HasCell(r.cells, cellId),
   query |-> IF HasCell(r.cells, cellId) THEN FindCell(r.cells, cellId).query
             ELSE emptyQuery]

\* what a render hands to the handlers it creates: the cells and isInitialized
Snapshot ==
  [cells |-> [i \in 1..Len(cells) |-> CellProps(cells[i])],
   isInitialized |-> isInitialized]

\* one more event of the behaviour
Step ==
  /\ steps < MaxSteps
  /\ steps' = steps + 1
  /\ UNCHANGED batching
  /\ UNCHANGED <<importVars, toolVars>>

\* the render of the state a step leads to, and the editors it keeps
Commit ==
  /\ rendered' = [cells |-> [i \in 1..Len(cells') |-> CellProps(cells'[i])],
                  isInitialized |-> isInitialized']
  /\ mounted' = {m \in mounted : m.uid \in Uids(cells')}

\* a discrete UI event has been handled.  React commits its render before the
\* next event is handled; with batching several handlers may run on the
\* closures of one commit.
UIEvent ==
  /\ Step
  /\ IF batching
     THEN stale < MaxStale /\ stale' = stale + 1 /\ UNCHANGED <<rendered, mounted>>
     ELSE stale' = 0 /\ Commit

\* a continuation of asynchronous work has run: its state updates are
\* rendered at once, or with batching at some later commit
AsyncEvent ==
  /\ Step
  /\ IF batching
     THEN UNCHANGED <<stale, rendered, mounted>>
     ELSE stale' = 0 /\ Commit

\* const newCell = { id: Date.now().toString(), query, results: [], isExecuting: false }
NewCell(t, q) == [id |-> t, query |-> q, results |-> <<>>, isExecuting |-> FALSE,
                  uid |-> nextUid]

\* the values a call of Date.now() can return: the value of the last call (the
\* same millisecond) or a later one
DateNow == {t \in now..(now + 1) : t <= MaxClock}


(***************************************************************************)
(* Initial state: useState initial values, nothing rendered-stale, no      *)
(* editor mounted yet.                                                     *)
(***************************************************************************)
CellInit ==
  /\ cells = <<[id |-> 1, query |-> initialQuery, results |-> <<>>,
                isExecuting |-> FALSE, uid |-> 1]>>
  /\ isInitialized = FALSE
  /\ queryHistory = <<>>
  /\ rendered = Snapshot
  /\ mounted = {}
  /\ timers = <<>>
  /\ calls = {}
  /\ now = 2
  /\ nextUid = 2
  /\ nreq = 0
  /\ edits = 0
  /\ logged = <<>>
  /\ stale = 0
  /\ steps = 0

(***************************************************************************)
(* initializeDatabase reaching setIsInitialized(true).                     *)
(***************************************************************************)
initializeDatabase ==
  /\ ~isInitialized
  /\ isInitialized' = TRUE
  /\ UNCHANGED <<cells, queryHistory, timers, calls, now, nextUid, nreq, edits,
                 logged>>
  /\ AsyncEvent

(***************************************************************************)
(* React commits a render: handlers created from now on close over the     *)
(* current state; editors of cells no longer in the list unmount.          *)
(***************************************************************************)
Render ==
  /\ rendered # Snapshot
  /\ rendered' = Snapshot
  /\ stale' = 0
  /\ Step
  /\ mounted' = {m \in mounted : m.uid \in Uids(cells)}
  /\ UNCHANGED <<cells, isInitialized, queryHistory, timers, calls, now,
                 nextUid, nreq, edits, logged>>

(***************************************************************************)
(* QueryEditor onMount: editor.addCommand(CtrlCmd|Enter, () =>             *)
(* handleExecute()) captures the handleExecute of the render that mounts   *)
(* the editor, that is the query prop and the onExecute of that render.    *)
(***************************************************************************)
EditorMount(i) ==
  LET rc == rendered.cells[i] IN
  /\ rc.uid \notin {m.uid : m \in mounted}
  /\ mounted' = mounted \cup
       {[uid |-> rc.uid, query |-> rc.query, exec |-> ExecClosure(rendered, rc.id, rc.uid)]}
  /\ Step
  /\ UNCHANGED stale
  /\ UNCHANGED <<cells, isInitialized, queryHistory, rendered, timers, calls,
                 now, nextUid, nreq, edits, logged>>

(***************************************************************************)
(* handleExecuteQuery(cellId), run with closure cl.  It ends at the first  *)
(* await (the engine call), or earlier at one of its returns.              *)
(***************************************************************************)
StartedCall(cl) ==
  [req |-> nreq + 1, cellId |-> cl.cellId, origin |-> cl.origin, query |-> cl.query,
   copy |-> copyMatch(cl.query),
   before |-> {<<cells[i].uid, cells[i].results>> :
                 i \in {j \in 1..Len(cells) : cells[j].id = cl.cellId}}]

setExecuting(cellId, flag) ==
  [i \in 1..Len(cells) |->
     IF cells[i].id = cellId THEN [cells[i] EXCEPT !.isExecuting = flag] ELSE cells[i]]

handleExecuteQuery(cl) ==
  /\ nreq < MaxRequests
  /\ nreq' = nreq + 1
  /\ logged' = Append(logged, [counted |-> isInitialized, entries |-> 0])
  /\ IF ~cl.init \/ ~cl.found
       THEN UNCHANGED <<cells, calls>>
       ELSE /\ calls' = calls \cup {StartedCall(cl)}
            /\ cells' = IF copyMatch(cl.query) THEN cells
                        ELSE setExecuting(cl.cellId, TRUE)


(***************************************************************************)
(* The three triggers of handleExecuteQuery.                               *)
(***************************************************************************)
\* Run button of rendered cell i: disabled while the rendered cell is
\* executing; QueryEditor.handleExecute returns when validation fails
RunClick(i) ==
  LET rc == rendered.cells[i] IN
  /\ ~rc.isExecuting
  /\ validateSQL(rc.query).valid
  /\ handleExecuteQuery(ExecClosure(rendered, rc.id, rc.uid))
  /\ UNCHANGED <<isInitialized, queryHistory, timers, now, nextUid, edits>>
  /\ UIEvent

\* Ctrl/Cmd+Enter in a mounted editor: the handleExecute captured by onMount
CtrlEnter(m) ==
  /\ m.uid \in Uids(rendered.cells)
  /\ validateSQL(m.query).valid
  /\ handleExecuteQuery(m.exec)
  /\ UNCHANGED <<isInitialized, queryHistory, timers, now, nextUid, edits>>
  /\ UIEvent

\* setTimeout(() => handleExecuteQuery(newCell.id), 100) of onRunQuery fires
TimerFire ==
  /\ timers # <<>>
  /\ handleExecuteQuery(Head(timers))
  /\ timers' = Tail(timers)
  /\ UNCHANGED <<isInitialized, queryHistory, now, nextUid, edits>>
  /\ AsyncEvent

(***************************************************************************)
(* The engine answers a call: the continuation of handleExecuteQuery after *)
(* its await.                                                              *)
(***************************************************************************)
HistoryItem(c, ok, rows) ==
  [query |-> c.query, success |-> ok, rowCount |-> rows, req |-> c.req]

\* the entry put in front of the log instead of at its end
addToHistoryFront(item) == <<item>> \o queryHistory

\* setQueryHistory(prev => [...prev, item])
addToHistory(item) == Append(queryHistory, item)

noteLogged(c) == [logged EXCEPT ![c.req].entries = @ + 1]

\* setCells(prev => prev.map(c => c.id === cellId
\*   ? { ...c, results: result, isExecuting: false } : c))
storeResult(cellId, result) ==
  [i \in 1..Len(cells) |->
     IF cells[i].id = cellId
     THEN [cells[i] EXCEPT !.results = result, !.isExecuting = FALSE]
     ELSE cells[i]]

ExecSuccess(c, result) ==
  /\ ~c.copy
  /\ calls' = calls \ {c}
  /\ cells' = storeResult(c.cellId, result)
  /\ queryHistory' = addToHistory(HistoryItem(c, TRUE, Len(result)))
  /\ logged' = noteLogged(c)
  /\ UNCHANGED <<isInitialized, timers, now, nextUid, nreq, edits>>
  /\ AsyncEvent

ExecFail(c) ==
  /\ ~c.copy
  /\ calls' = calls \ {c}
  /\ cells' = setExecuting(c.cellId, FALSE)
  /\ queryHistory' = addToHistory(HistoryItem(c, FALSE, 0))
  /\ logged' = noteLogged(c)
  /\ UNCHANGED <<isInitialized, timers, now, nextUid, nreq, edits>>
  /\ AsyncEvent

\* the COPY branch: download or toast, then return; no state is set
CopyDone(c) ==
  /\ c.copy
  /\ calls' = calls \ {c}
  /\ UNCHANGED <<cells, isInitialized, queryHistory, timers, now, nextUid, nreq,
                 edits, logged>>
  /\ AsyncEvent

(***************************************************************************)
(* Adding cells: the New Cell button, a sidebar table click, an AI query   *)
(* and the run action of a history entry.                                  *)
(***************************************************************************)
appendCell(t, q) ==
  /\ nextUid <= MaxAdds + 1
  /\ now' = t
  /\ cells' = Append(cells, NewCell(t, q))
  /\ nextUid' = nextUid + 1

handleAddCell(t) ==
  /\ appendCell(t, emptyQuery)
  /\ UNCHANGED <<isInitialized, queryHistory, timers, calls, nreq, edits, logged>>
  /\ UIEvent

onTableClick(t) ==
  /\ appendCell(t, tableQuery)
  /\ UNCHANGED <<isInitialized, queryHistory, timers, calls, nreq, edits, logged>>
  /\ UIEvent

onQuerySelect(t, q) ==
  /\ appendCell(t, q)
  /\ UNCHANGED <<isInitialized, queryHistory, timers, calls, nreq, edits, logged>>
  /\ UIEvent

onRunQuery(t, k) ==
  /\ appendCell(t, queryHistory[k].query)
  /\ timers' = Append(timers, ExecClosure(rendered, t, nextUid))
  /\ UNCHANGED <<isInitialized, queryHistory, calls, nreq, edits, logged>>
  /\ UIEvent

(***************************************************************************)
(* Deleting and editing cells, clearing the history.                        *)
(***************************************************************************)
\* QueryCell shows the Delete Cell item only when showDelete
showDelete(r) == Len(r.cells) > 1

handleDeleteCell(r, cellId) ==
  IF Len(r.cells) = 1
  THEN cells' = cells
  ELSE cells' = SelectSeq(cells, LAMBDA c : c.id # cellId)

DeleteClick(i) ==
  /\ showDelete(rendered)
  /\ handleDeleteCell(rendered, rendered.cells[i].id)
  /\ UNCHANGED <<isInitialized, queryHistory, timers, calls, now, nextUid, nreq, edits, logged>>
  /\ UIEvent

handleUpdateCellQuery(cellId, q) ==
  /\ edits < MaxEdits
  /\ edits' = edits + 1
  /\ cells' = [i \in 1..Len(cells) |->
                 IF cells[i].id = cellId THEN [cells[i] EXCEPT !.query = q] ELSE cells[i]]
  /\ UNCHANGED <<isInitialized, queryHistory, timers, calls, now, nextUid, nreq, logged>>
  /\ UIEvent

onClearHistory ==
  /\ queryHistory # <<>>
  /\ queryHistory' = <<>>
  /\ UNCHANGED <<cells, isInitialized, timers, calls, now, nextUid, nreq, edits, logged>>
  /\ UIEvent


\* handlers of discrete UI events
UINext ==
  \/ \E i \in 1..Len(rendered.cells) : RunClick(i)
  \/ \E m \in mounted : CtrlEnter(m)
  \/ \E t \in DateNow : handleAddCell(t)
  \/ \E t \in DateNow : onTableClick(t)
  \/ \E t \in DateNow : \E q \in AIQueries : onQuerySelect(t, q)
  \/ \E t \in DateNow : \E k \in 1..Len(queryHistory) : onRunQuery(t, k)
  \/ \E i \in 1..Len(rendered.cells) : DeleteClick(i)
  \/ \E i \in 1..Len(rendered.cells) : \E q \in EditTexts :
       handleUpdateCellQuery(rendered.cells[i].id, q)
  \/ onClearHistory

\* editors mounting, and continuations of asynchronous work
AsyncNext ==
  \/ initializeDatabase
  \/ \E i \in 1..Len(rendered.cells) : EditorMount(i)
  \/ TimerFire
  \/ \E c \in calls : \E result \in Results : ExecSuccess(c, result)
  \/ \E c \in calls : ExecFail(c)
  \/ \E c \in calls : CopyDone(c)

(***************************************************************************)
(* The engine.  A table is a list of rows; a row of the imported file is   *)
(* its position in the file, a row that was in a table before the import   *)
(* is 0.  Statements handed to conn.query are executed one at a time in    *)
(* the order they were sent; a statement that fails changes nothing.       *)
(***************************************************************************)
NoTable == [exists |-> FALSE, rows |-> <<>>]
EmptyTable == [exists |-> TRUE, rows |-> <<>>]
OldTable == [exists |-> TRUE, rows |-> <<0>>]

\* the table names the user can give, and the names statements are sent for
UserNames == {"t", "a b"}
TableNames == {"t", "a b", "a_b", "_tmp_t", "_tmp_a_b"}

\* tableName.replace(/[^a-zA-Z0-9_]/g, '_') on the names above
safeName(n) == IF n = "a b" THEN "a_b" ELSE n

\* `_tmp_${safeName}_${Date.now()}`
tmpTable(sn) == IF sn = "t" THEN "_tmp_t" ELSE "_tmp_a_b"

Rows(a, b) == [k \in 1..(b - a + 1) |-> a + k - 1]

Stmt(op, n, to, rs) ==
  [op |-> op, table |-> n, to |-> to, rows |-> rs, status |-> "pending",
   found |-> FALSE]

SelectName(n) == Stmt("SELECT", n, n, <<>>)
DropIfExists(n) == Stmt("DROP", n, n, <<>>)
CreateTable(n) == Stmt("CREATE", n, n, <<>>)
CreateIfNotExists(n) == Stmt("CREATE_IF", n, n, <<>>)
InsertInto(n, rs) == Stmt("INSERT", n, n, rs)
CreateAsSelect(n, rs) == Stmt("CTAS", n, n, rs)
RenameTo(n, to) == Stmt("RENAME", n, to, <<>>)

\* a row the engine refuses: a value that does not convert to the column's
\* type, a line with more fields than the header
HasBadRow(rs) == \E k \in 1..Len(rs) : rs[k] \in imp.bad

Fails(cat, s) ==
  CASE s.op = "CREATE" -> cat[s.table].exists
    [] s.op = "INSERT" -> ~cat[s.table].exists \/ HasBadRow(s.rows)
    [] s.op = "CTAS" -> cat[s.table].exists \/ HasBadRow(s.rows)
    [] s.op = "RENAME" -> ~cat[s.table].exists \/ cat[s.to].exists
    [] OTHER -> FALSE

Effect(cat, s) ==
  CASE s.op = "DROP" -> [cat EXCEPT ![s.table] = NoTable]
    [] s.op = "CREATE" -> [cat EXCEPT ![s.table] = EmptyTable]
    [] s.op = "CREATE_IF" ->
         IF cat[s.table].exists THEN cat ELSE [cat EXCEPT ![s.table] = EmptyTable]
    [] s.op = "INSERT" -> [cat EXCEPT ![s.table].rows = @ \o s.rows]
    [] s.op = "CTAS" -> [cat EXCEPT ![s.table] = [exists |-> TRUE, rows |-> s.rows]]
    [] s.op = "RENAME" -> [cat EXCEPT ![s.to] = cat[s.table], ![s.table] = NoTable]
    [] OTHER -> cat

Pending == {k \in 1..Len(sent) : sent[k].status = "pending"}

\* the engine executes the oldest statement not yet answered
EngineRun ==
  /\ Pending # {}
  /\ LET k == CHOOSE p \in Pending : \A q \in Pending : p <= q
         s == sent[k]
     IN IF Fails(catalog, s)
        THEN /\ sent' = [sent EXCEPT ![k].status = "err"]
             /\ UNCHANGED catalog
        ELSE /\ sent' = [sent EXCEPT ![k].status = "ok",
                                     ![k].found = catalog[s.table].exists]
             /\ catalog' = Effect(catalog, s)
  /\ UNCHANGED <<imp, pc, pos, created, error, tables>>
  /\ UNCHANGED <<cellVars, toolVars>>

(***************************************************************************)
(* handleImportCSV(tableName, data, columns, opts), rows already parsed.   *)
(* Each action runs the handler from one await to the next.                *)
(***************************************************************************)
NoError == [kind |-> "none", table |-> ""]
EngineError == [kind |-> "engine", table |-> ""]
\* `Table '${tableName}' already exists. Please delete it first or ...`
TableExists(n) == [kind |-> "exists", table |-> n]

Send(s) == sent' = Append(sent, s)
Last == sent[Len(sent)]
\* the awaited statement has been answered
Acked == sent # <<>> /\ Last.status # "pending"

\* catch (error) { throw new Error(error.message || ...) }
Throw(e) == pc' = "failed" /\ error' = e

\* refreshTables(): setTables of the tables of the catalog
refreshTables == tables' = {n \in TableNames : catalog[n].exists}

handleImportCSV ==
  /\ pc = "start"
  /\ IF imp.path = "file"
     THEN IF imp.overwrite
          THEN Send(DropIfExists(imp.tableName)) /\ pc' = "fileDrop"
          ELSE UNCHANGED sent /\ pc' = "importCSVFile"
     ELSE Send(SelectName(imp.tableName)) /\ pc' = "exists"
  /\ UNCHANGED <<imp, catalog, pos, created, error, tables>>
  /\ UNCHANGED <<cellVars, toolVars>>

\* existsRes is back: overwrite, refuse, or create the table
ImportExists ==
  /\ pc = "exists" /\ Acked
  /\ IF Last.status = "err"
     THEN Throw(EngineError) /\ UNCHANGED sent
     ELSE IF Last.found
          THEN IF imp.overwrite
               THEN Send(DropIfExists(imp.tableName)) /\ pc' = "drop" /\ UNCHANGED error
               ELSE Throw(TableExists(imp.tableName)) /\ UNCHANGED sent
          ELSE Send(CreateTable(imp.tableName)) /\ pc' = "create" /\ UNCHANGED error
  /\ UNCHANGED <<imp, catalog, pos, created, tables>>
  /\ UNCHANGED <<cellVars, toolVars>>

ImportDropped ==
  /\ pc = "drop" /\ Acked
  /\ IF Last.status = "err"
     THEN Throw(EngineError) /\ UNCHANGED sent
     ELSE Send(CreateTable(imp.tableName)) /\ pc' = "create" /\ UNCHANGED error
  /\ UNCHANGED <<imp, catalog, pos, created, tables>>
  /\ UNCHANGED <<cellVars, toolVars>>

\* for (let i = 0; i < data.length; i += batchSize) await executeQuery(INSERT)
ImportBatch ==
  /\ pc \in {"create", "insert"} /\ Acked
  /\ IF Last.status = "err"
     THEN Throw(EngineError) /\ UNCHANGED <<sent, pos, tables>>
     ELSE IF pos < imp.n
          THEN LET to == IF pos + rowsBatchSize < imp.n THEN pos + rowsBatchSize
                         ELSE imp.n
               IN /\ Send(InsertInto(imp.tableName, Rows(pos + 1, to)))
                  /\ pos' = pos + rowsBatchSize
                  /\ pc' = "insert"
                  /\ UNCHANGED <<error, tables>>
          ELSE /\ refreshTables
               /\ pc' = "done"
               /\ UNCHANGED <<sent, pos, error>>
  /\ UNCHANGED <<imp, catalog, created>>
  /\ UNCHANGED <<cellVars, toolVars>>

(***************************************************************************)
(* handleImportCSV with a File, and importCSVFile(file, tableName).        *)
(***************************************************************************)
\* the DROP of the overwrite option is back; importCSVFile is called
FileDropped ==
  /\ pc = "fileDrop" /\ Acked
  /\ IF Last.status = "err"
     THEN Throw(EngineError)
     ELSE pc' = "importCSVFile" /\ UNCHANGED error
  /\ UNCHANGED <<imp, catalog, sent, pos, created, tables>>
  /\ UNCHANGED <<cellVars, toolVars>>

\* entry of importCSVFile: register the file and create the temporary table
\* from it when the connection has registerFileBuffer, else parse
importCSVFile ==
  /\ pc = "importCSVFile"
  /\ IF imp.hasRegister
     THEN /\ Send(CreateAsSelect(tmpTable(safeName(imp.tableName)), Rows(1, imp.n)))
          /\ pc' = "ctas"
     ELSE UNCHANGED sent /\ pc' = "parse"
  /\ UNCHANGED <<imp, catalog, pos, created, error, tables>>
  /\ UNCHANGED <<cellVars, toolVars>>

\* CREATE TABLE tmp AS SELECT is back: rename, or catch and fall back
CtasDone ==
  /\ pc = "ctas" /\ Acked
  /\ IF Last.status = "err"
     THEN UNCHANGED sent /\ pc' = "parse"
     ELSE /\ Send(RenameTo(tmpTable(safeName(imp.tableName)), safeName(imp.tableName)))
          /\ pc' = "rename"
  /\ UNCHANGED <<imp, catalog, pos, created, error, tables>>
  /\ UNCHANGED <<cellVars, toolVars>>

\* ALTER TABLE tmp RENAME is back: return (handleImportCSV refreshes), or
\* catch and fall back
RenameDone ==
  /\ pc = "rename" /\ Acked
  /\ IF Last.status = "err"
     THEN pc' = "parse" /\ UNCHANGED tables
     ELSE pc' = "done" /\ refreshTables
  /\ UNCHANGED <<imp, catalog, sent, pos, created, error>>
  /\ UNCHANGED <<cellVars, toolVars>>

\* the INSERT batches of one chunk: full batches, then the rest
RECURSIVE Batches(_)
Batches(rs) ==
  IF rs = <<>> THEN <<>>
  ELSE IF Len(rs) <= fileBatchSize THEN <<rs>>
  ELSE <<SubSeq(rs, 1, fileBatchSize)>>
         \o Batches(SubSeq(rs, fileBatchSize + 1, Len(rs)))

\* Papa's chunk callback with the next k rows: the statements are pushed to
\* insertPromises, none is awaited
FileChunk(k) ==
  /\ pc = "parse"
  /\ pos + k <= imp.n
  /\ LET sn == safeName(imp.tableName)
         bs == Batches(Rows(pos + 1, pos + k))
     IN sent' = sent
                  \o (IF created THEN <<>> ELSE <<CreateIfNotExists(sn)>>)
                  \o [b \in 1..Len(bs) |-> InsertInto(sn, bs[b])]
  /\ created' = TRUE
  /\ pos' = pos + k
  /\ UNCHANGED <<imp, catalog, pc, error, tables>>
  /\ UNCHANGED <<cellVars, toolVars>>

\* Papa's complete callback: await Promise.all(insertPromises) starts
FileComplete ==
  /\ pc = "parse"
  /\ pos = imp.n
  /\ pc' = "settle"
  /\ UNCHANGED <<imp, catalog, sent, pos, created, error, tables>>
  /\ UNCHANGED <<cellVars, toolVars>>

\* the statements pushed to insertPromises
insertPromises == {k \in 1..Len(sent) : sent[k].op \in {"CREATE_IF", "INSERT"}}

\* Promise.all settles: it rejects once one promise has rejected, it resolves
\* when all have resolved
FileSettle ==
  /\ pc = "settle"
  /\ IF \E k \in insertPromises : sent[k].status = "err"
     THEN Throw(EngineError) /\ UNCHANGED tables
     ELSE /\ \A k \in insertPromises : sent[k].status = "ok"
          /\ pc' = "done"
          /\ refreshTables
          /\ UNCHANGED error
  /\ UNCHANGED <<imp, catalog, sent, pos, created>>
  /\ UNCHANGED <<cellVars, toolVars>>

(***************************************************************************)
(* The import specification: one import, of any file of up to MaxRows rows *)
(* with at most one row the engine refuses, into any catalog.              *)
(***************************************************************************)
NoImport ==
  [path |-> "none", tableName |-> "t", overwrite |-> FALSE, hasRegister |-> FALSE,
   n |-> 0, bad |-> {}, catalog0 |-> [t \in TableNames |-> NoTable]]

\* no import is going on
ImportIdle ==
  /\ imp = NoImport
  /\ catalog = NoImport.catalog0
  /\ sent = <<>>
  /\ pc = "idle"
  /\ pos = 0
  /\ created = FALSE
  /\ error = NoError
  /\ tables = {}

Imports ==
  {[path |-> p, tableName |-> t, overwrite |-> o, hasRegister |-> h, n |-> n,
    bad |-> b,
    catalog0 |-> [x \in TableNames |-> IF x \in e THEN OldTable ELSE NoTable]] :
     p \in {"rows", "file"}, t \in UserNames, o \in BOOLEAN, h \in BOOLEAN,
     n \in 0..MaxRows, b \in {{}} \cup {{r} : r \in 1..MaxRows},
     e \in SUBSET {"t", "a b", "a_b"}}

ImportInit ==
  /\ CellInit
  /\ batching = FALSE
  /\ imp \in {i \in Imports : i.bad \subseteq 1..i.n
                              /\ (i.path = "rows" => ~i.hasRegister)}
  /\ catalog = imp.catalog0
  /\ sent = <<>>
  /\ pc = "start"
  /\ pos = 0
  /\ created = FALSE
  /\ error = NoError
  /\ tables = {n \in TableNames : imp.catalog0[n].exists}
  /\ ToolIdle

ImportNext ==
  \/ handleImportCSV
  \/ ImportExists
  \/ ImportDropped
  \/ ImportBatch
  \/ FileDropped
  \/ importCSVFile
  \/ CtasDone
  \/ RenameDone
  \/ \E k \in 1..MaxRows : FileChunk(k)
  \/ FileComplete
  \/ FileSettle
  \/ EngineRun

(***************************************************************************)
(* The other operations that send DDL, once the import is over: deleting a *)
(* table from the sidebar, and running a cell whose text is a DDL          *)
(* statement.                                                              *)
(***************************************************************************)
\* handleDeleteTable(tableName) up to its await
handleDeleteTable(n) ==
  /\ pc \in {"done", "failed"}
  /\ Pending = {}
  /\ Send(DropIfExists(n))
  /\ pc' = "deleting"
  /\ UNCHANGED <<imp, catalog, pos, created, error, tables>>
  /\ UNCHANGED <<cellVars, toolVars>>

\* DROP TABLE is back: refreshTables, or the catch
DeleteDone ==
  /\ pc = "deleting" /\ Acked
  /\ IF Last.status = "err" THEN UNCHANGED tables ELSE refreshTables
  /\ pc' = "deleted"
  /\ UNCHANGED <<imp, catalog, sent, pos, created, error>>
  /\ UNCHANGED <<cellVars, toolVars>>

\* handleExecuteQuery on a cell whose text is statement s, up to its await
cellStatement(s) ==
  /\ pc \in {"done", "failed"}
  /\ Pending = {}
  /\ Send(s)
  /\ pc' = "cell"
  /\ UNCHANGED <<imp, catalog, pos, created, error, tables>>
  /\ UNCHANGED <<cellVars, toolVars>>

\* executeQuery is back: the results or the error go to the cell and the history
cellAnswered ==
  /\ pc = "cell" /\ Acked
  /\ pc' = "cellDone"
  /\ UNCHANGED <<imp, catalog, sent, pos, created, error, tables>>
  /\ UNCHANGED <<cellVars, toolVars>>

CatalogNext ==
  \/ handleImportCSV
  \/ ImportExists
  \/ ImportDropped
  \/ ImportBatch
  \/ FileDropped
  \/ importCSVFile
  \/ CtasDone
  \/ RenameDone
  \/ \E k \in 1..MaxRows : FileChunk(k)
  \/ FileComplete
  \/ FileSettle
  \/ EngineRun
  \/ \E n \in UserNames : handleDeleteTable(n)
  \/ DeleteDone
  \/ \E n \in UserNames : cellStatement(CreateTable(n))
  \/ \E n \in UserNames : cellStatement(DropIfExists(n))
  \/ cellAnswered

(***************************************************************************)
(* CSVImporter: the Import button of the dialog.  Papa.parse(text, {header, *)
(* skipEmptyLines}) hands results.data (imp.n rows) and results.errors to  *)
(* the complete callback; onImport is handleImportCSV with parsed rows.    *)
(***************************************************************************)
\* a toast that leaves importing as it is
toastBusy(message) ==
  dialog' = [dialog EXCEPT !.readWhole = TRUE, !.toast = message]

\* const text = await file.text(); Papa.parse(text, ...): the whole file is
\* read and parsed, whatever file.size > MAX_IN_MEMORY says
toast(message) ==
  dialog' = [dialog EXCEPT !.importing = FALSE, !.readWhole = TRUE, !.toast = message]

handleImport ==
  /\ pc = "dialog"
  /\ dialog.toast = "none"
  /\ IF ~dialog.chosen
     THEN /\ dialog' = [dialog EXCEPT
                          !.toast = "Please select a file and provide a table name"]
          /\ UNCHANGED pc
     ELSE IF dialog.errors
     THEN toast("Error parsing CSV") /\ UNCHANGED pc
     ELSE IF imp.n = 0
     THEN toast("CSV file is empty") /\ UNCHANGED pc
     ELSE /\ dialog' = [dialog EXCEPT !.importing = TRUE, !.readWhole = TRUE]
          /\ pc' = "start"
  /\ UNCHANGED <<imp, catalog, sent, pos, created, error, tables>>
  /\ UNCHANGED <<cellVars, nameVars, grid, infer, moreVars>>

\* await onImport(...) has returned or thrown
importReturned ==
  /\ pc \in {"done", "failed"}
  /\ dialog.importing
  /\ toast(IF pc = "done" THEN "Imported" ELSE "Failed to import")
  /\ UNCHANGED importVars
  /\ UNCHANGED <<cellVars, nameVars, grid, infer, moreVars>>

\* the Import button is clicked with any file, parsed with or without errors
ImporterInit ==
  /\ CellInit
  /\ batching = FALSE
  /\ imp \in {i \in Imports : i.bad \subseteq 1..i.n /\ i.path = "rows" /\ ~i.hasRegister}
  /\ catalog = imp.catalog0
  /\ sent = <<>>
  /\ pc = "dialog"
  /\ pos = 0
  /\ created = FALSE
  /\ error = NoError
  /\ tables = {n \in TableNames : imp.catalog0[n].exists}
  /\ NamesIdle
  /\ grid = NoGrid
  /\ infer = NoInfer
  /\ MoreIdle
  /\ dialog \in {[NoDialog EXCEPT !.chosen = c, !.large = l, !.errors = e] :
                   c, l, e \in BOOLEAN}

ImporterNext ==
  \/ handleImport
  \/ importReturned
  \/ handleImportCSV
  \/ ImportExists
  \/ ImportDropped
  \/ ImportBatch
  \/ EngineRun

(***************************************************************************)
(* TableDataEditor on a table of one column.  grid.table is the table in   *)
(* the engine, each row with the ROWID the engine gives it; grid.rows is   *)
(* useState rows, the page shown; grid.editingCell is the index of the row *)
(* being edited (0: null); grid.updates are the UPDATE statements sent;    *)
(* grid.loading is -1, or the number of statements sent before the SELECT  *)
(* of a loadTableData in flight; grid.committed (a history value) lists    *)
(* the ROWID of each row an edit was committed on.  grid.currentPage is    *)
(* useState currentPage; grid.selectedRows is the Set selectedRows in its  *)
(* insertion order; grid.ticked (a history value) holds the ROWIDs of the  *)
(* rows whose checkboxes were ticked; grid.outcome records the last        *)
(* handleDeleteRows: its toast, the rows ticked, the ROWIDs that left the  *)
(* table, and the count in the toast.                                      *)
(***************************************************************************)
pageSize == 1

\* LIMIT pageSize OFFSET currentPage * pageSize
page(table, currentPage) ==
  SubSeq(table, currentPage * pageSize + 1,
         IF (currentPage + 1) * pageSize < Len(table)
         THEN (currentPage + 1) * pageSize ELSE Len(table))

CellValues == {"u", "v"}
\* editValue: the text of the input, '' is written as NULL
EditValues == {"", "w"}
\* the smallest ROWID the engine hands out
FirstRowids == {0, 1}

\* SELECT ROWID, * FROM table has been answered: setRows(result)
loadTableData ==
  /\ grid.loading >= 0
  /\ \A k \in 1..grid.loading : grid.updates[k].status # "pending"
  /\ grid' = [grid EXCEPT !.rows = page(grid.table, grid.currentPage), !.loading = -1]
  /\ UNCHANGED <<cellVars, importVars, nameVars, dialog, infer, moreVars>>

handleCellClick(rowIdx) ==
  /\ grid.loading = -1
  /\ grid' = [grid EXCEPT !.editingCell = rowIdx]
  /\ UNCHANGED <<cellVars, importVars, nameVars, dialog, infer, moreVars>>

\* Escape in the input
cancelEdit ==
  /\ grid.editingCell # 0
  /\ grid' = [grid EXCEPT !.editingCell = 0]
  /\ UNCHANGED <<cellVars, importVars, nameVars, dialog, infer, moreVars>>

\* Enter in the input, or its blur, with editValue in it: up to the await
handleCellChange(editValue) ==
  /\ grid.editingCell \in 1..Len(grid.rows)
  /\ Len(grid.committed) < MaxCommits
  /\ LET row == grid.rows[grid.editingCell]
         rowid == row.ROWID
     IN IF rowid = 0
        THEN grid' = [grid EXCEPT !.editingCell = 0,
                                  !.committed = Append(@, rowid)]
        ELSE grid' = [grid EXCEPT
               !.rows[grid.editingCell].val = editValue,
               !.editingCell = 0,
               !.updates = Append(@, [rowid |-> rowid,
                                      value |-> IF editValue = "" THEN "NULL" ELSE editValue,
                                      status |-> "pending"]),
               !.committed = Append(@, rowid)]
  /\ UNCHANGED <<cellVars, importVars, nameVars, dialog, infer, moreVars>>

\* the engine answers the oldest UPDATE: it sets the value in the rows with
\* that ROWID, or it fails and the catch calls loadTableData
updateAnswered(ok) ==
  /\ \E k \in 1..Len(grid.updates) : grid.updates[k].status = "pending"
  /\ LET k == CHOOSE j \in 1..Len(grid.updates) :
                /\ grid.updates[j].status = "pending"
                /\ \A i \in 1..(j - 1) : grid.updates[i].status # "pending"
         u == grid.updates[k]
     IN IF ok
        THEN grid' = [grid EXCEPT
               !.updates[k].status = "ok",
               !.table = [i \in 1..Len(grid.table) |->
                            IF grid.table[i].ROWID = u.rowid
                            THEN [grid.table[i] EXCEPT !.val = u.value]
                            ELSE grid.table[i]]]
        ELSE grid' = [grid EXCEPT !.updates[k].status = "err",
                                  !.loading = Len(grid.updates)]
  /\ UNCHANGED <<cellVars, importVars, nameVars, dialog, infer, moreVars>>

\* the checkbox of the row shown at rowIdx
handleRowSelect(rowIdx, checked) ==
  /\ grid.loading = -1
  /\ LET has == \E j \in 1..Len(grid.selectedRows) : grid.selectedRows[j] = rowIdx
         keep(x) == x # rowIdx
     IN grid' = [grid EXCEPT
          !.selectedRows = IF checked
                           THEN IF has THEN @ ELSE Append(@, rowIdx)
                           ELSE SelectSeq(@, keep),
          !.ticked = IF checked THEN @ \cup {grid.rows[rowIdx].ROWID}
                     ELSE @ \ {grid.rows[rowIdx].ROWID}]
  /\ UNCHANGED <<cellVars, importVars, nameVars, dialog, infer, moreVars>>

\* the next-page button, disabled when the page shown is not full; the
\* useEffect on currentPage calls loadTableData
nextPage ==
  /\ grid.loading = -1
  /\ Len(grid.rows) >= pageSize
  /\ grid' = [grid EXCEPT !.currentPage = @ + 1, !.loading = Len(grid.updates)]
  /\ UNCHANGED <<cellVars, importVars, nameVars, dialog, infer, moreVars>>

previousPage ==
  /\ grid.loading = -1
  /\ grid.currentPage # 0
  /\ grid' = [grid EXCEPT !.currentPage = @ - 1, !.loading = Len(grid.updates)]
  /\ UNCHANGED <<cellVars, importVars, nameVars, dialog, infer, moreVars>>

\* Delete and its confirmation.  The loop runs over selectedRows; stop is
\* the number of its turns that end: turn stop + 1 throws, on rows[idx]
\* undefined or on a DELETE the engine rejects.
handleDeleteRows(stop) ==
  /\ grid.loading = -1
  /\ grid.selectedRows # <<>>
  /\ \A k \in 1..Len(grid.updates) : grid.updates[k].status # "pending"
  /\ LET sel == grid.selectedRows
         shown(j) == sel[j] <= Len(grid.rows)
         rowid(j) == grid.rows[sel[j]].ROWID
         deletes == {rowid(j) : j \in {i \in 1..stop : rowid(i) # 0}}
         gone == {grid.table[i].ROWID : i \in 1..Len(grid.table)} \cap deletes
         stays(row) == row.ROWID \notin deletes
     IN /\ \A j \in 1..stop : shown(j)
        /\ stop < Len(sel) => IF shown(stop + 1) THEN rowid(stop + 1) # 0 ELSE TRUE
        /\ IF stop = Len(sel)
           THEN grid' = [grid EXCEPT
                  !.table = SelectSeq(@, stays),
                  !.selectedRows = <<>>,
                  !.ticked = {},
                  !.outcome = [toast |-> "Deleted", ticked |-> grid.ticked,
                               deleted |-> gone, reported |-> Len(sel)],
                  !.loading = Len(grid.updates)]
           ELSE grid' = [grid EXCEPT
                  !.table = SelectSeq(@, stays),
                  !.outcome = [toast |-> "Failed to delete rows", ticked |-> grid.ticked,
                               deleted |-> gone, reported |-> 0]]
  /\ UNCHANGED <<cellVars, importVars, nameVars, dialog, infer, moreVars>>

\* the editor opens on a table of up to MaxGridRows rows; the useEffect of
\* the mount has called loadTableData
GridInit ==
  /\ CellInit
  /\ batching = FALSE
  /\ ImportIdle
  /\ NamesIdle
  /\ dialog = NoDialog
  /\ infer = NoInfer
  /\ MoreIdle
  /\ grid \in {[NoGrid EXCEPT
                  !.table = [i \in 1..n |-> [ROWID |-> first + i - 1, val |-> vals[i]]],
                  !.loading = 0] :
                first \in FirstRowids, n \in 0..MaxGridRows, vals \in [1..MaxGridRows -> CellValues]}

GridNext ==
  \/ loadTableData
  \/ \E rowIdx \in 1..Len(grid.rows) : handleCellClick(rowIdx)
  \/ cancelEdit
  \/ \E editValue \in EditValues : handleCellChange(editValue)
  \/ \E ok \in BOOLEAN : updateAnswered(ok)
  \/ \E rowIdx \in 1..Len(grid.rows) : \E checked \in BOOLEAN : handleRowSelect(rowIdx, checked)
  \/ nextPage
  \/ previousPage
  \/ \E stop \in 0..Len(grid.selectedRows) : handleDeleteRows(stop)

(***************************************************************************)
(* Column types.  A value of a parsed row is what the code asks of it: its *)
(* typeof, and what kind of value of that type it is.                      *)
(***************************************************************************)
Values ==
  {[typeof |-> "object", kind |-> "null"],
   [typeof |-> "undefined", kind |-> "undefined"],
   [typeof |-> "number", kind |-> "integer"],
   [typeof |-> "number", kind |-> "fraction"],
   [typeof |-> "number", kind |-> "NaN"],
   [typeof |-> "object", kind |-> "Date"],
   [typeof |-> "string", kind |-> "text"],
   [typeof |-> "boolean", kind |-> "boolean"]}

\* row[originalCol] !== null && row[originalCol] !== undefined
notNull(v) == v.kind # "null" /\ v.kind # "undefined"

\* data.find(row => ...)?.[originalCol] on the values of one column
RECURSIVE find(_)
find(data) ==
  IF data = <<>> THEN [typeof |-> "undefined", kind |-> "undefined"]
  ELSE IF notNull(Head(data)) THEN Head(data)
  ELSE find(Tail(data))

\* the type from firstValue without the test of Number.isInteger
typeOfNumber(firstValue) ==
  IF firstValue.typeof = "number" THEN "DOUBLE"
  ELSE IF firstValue.typeof = "object" /\ firstValue.kind = "Date" THEN "TIMESTAMP"
  ELSE "VARCHAR"

\* the type from firstValue
typeOf(firstValue) ==
  IF firstValue.typeof = "number"
  THEN IF firstValue.kind = "integer" THEN "INTEGER" ELSE "DOUBLE"
  ELSE IF firstValue.typeof = "object" /\ firstValue.kind = "Date" THEN "TIMESTAMP"
  ELSE "VARCHAR"

\* the callback of uniqueColumns.map((col, idx) => ...): the type of a column
columnDefs ==
  /\ infer.type = "none"
  /\ infer' = [infer EXCEPT !.type = IF infer.allVarchar THEN "VARCHAR"
                                     ELSE typeOf(find(infer.data))]
  /\ UNCHANGED <<cellVars, importVars, nameVars, dialog, grid, moreVars>>

\* any column of up to MaxRows values, with and without allVarchar
TypeInit ==
  /\ CellInit
  /\ batching = FALSE
  /\ ImportIdle
  /\ NamesIdle
  /\ dialog = NoDialog
  /\ grid = NoGrid
  /\ MoreIdle
  /\ infer \in {[NoInfer EXCEPT !.data = d, !.allVarchar = a] :
                  d \in UNION {[1..n -> Values] : n \in 0..MaxRows}, a \in BOOLEAN}

(***************************************************************************)
(* Column names.  A name is the sequence of its characters.  The same      *)
(* pipeline is written twice in the source: in handleImportCSV             *)
(* (sanitizedColumns, uniqueColumns) and in the chunk callback of          *)
(* importCSVFile (cols).                                                   *)
(***************************************************************************)
Digits == {"0", "1", "2", "3", "4", "5", "6", "7", "8", "9"}
Letters ==
  {"a", "b", "c", "d", "e", "f", "g", "h", "i", "j", "k", "l", "m", "n", "o", "p",
   "q", "r", "s", "t", "u", "v", "w", "x", "y", "z"}
\* [a-zA-Z0-9_]
WordChars == Letters \cup Digits \cup {"_"}
\* what String.prototype.trim strips
Whitespace == {" "}

\* the characters of the names of the model: a letter, a digit, the
\* underscore, a blank, and a character sanitization replaces
NameChars == {"a", "2", "_", " ", "-"}
PlainChars == {"a", "2", "_"}

DigitChars == <<"0", "1", "2", "3", "4", "5", "6", "7", "8", "9">>

\* `${n}`
RECURSIVE Decimal(_)
Decimal(n) ==
  IF n < 10 THEN <<DigitChars[n + 1]>>
  ELSE Decimal(n \div 10) \o <<DigitChars[(n % 10) + 1]>>

RECURSIVE trimStart(_)
trimStart(col) ==
  IF col # <<>> /\ Head(col) \in Whitespace THEN trimStart(Tail(col)) ELSE col

RECURSIVE trimEnd(_)
trimEnd(col) ==
  IF col # <<>> /\ col[Len(col)] \in Whitespace
  THEN trimEnd(SubSeq(col, 1, Len(col) - 1))
  ELSE col

\* col.trim()
trim(col) == trimEnd(trimStart(col))

\* sanitized.replace(/[^a-zA-Z0-9_]/g, '_')
replaceInvalid(col) ==
  [k \in 1..Len(col) |-> IF col[k] \in WordChars THEN col[k] ELSE "_"]

\* the sanitization without its test of a leading digit
sanitizeAnyStart(col, position) ==
  replaceInvalid(IF trim(col) # <<>> THEN trim(col)
                 ELSE <<"c", "o", "l", "u", "m", "n", "_">> \o Decimal(position))

\* the callback of columns.map((col, idx) => ...), idx + 1 = position
sanitize(col, position) ==
  LET named == IF trim(col) # <<>> THEN trim(col)
               ELSE <<"c", "o", "l", "u", "m", "n", "_">> \o Decimal(position)
      replaced == replaceInvalid(named)
  IN IF Head(replaced) \in Digits THEN <<"c", "o", "l", "_">> \o replaced
     ELSE replaced

sanitizedColumns(columns) ==
  [i \in 1..Len(columns) |-> sanitize(columns[i], i)]

\* sanitizedColumns.map((col, idx) => { duplicates = slice(0, idx).filter(...) })
uniqueColumns(cols) ==
  [i \in 1..Len(cols) |->
     LET duplicates == {j \in 1..(i - 1) : cols[j] = cols[i]}
     IN IF Cardinality(duplicates) > 0
        THEN cols[i] \o <<"_">> \o Decimal(Cardinality(duplicates) + 1)
        ELSE cols[i]]

\* the names of an import are computed
nameColumns ==
  /\ colPass = 0
  /\ colSafe' = sanitizedColumns(colIn)
  /\ colOut' = uniqueColumns(sanitizedColumns(colIn))
  /\ colPass' = 1
  /\ UNCHANGED colIn
  /\ UNCHANGED <<cellVars, importVars, dialog, grid, infer, moreVars>>

\* the names of a table are the header of another import
renameColumns ==
  /\ colPass = 1
  /\ colIn' = colOut
  /\ colSafe' = sanitizedColumns(colOut)
  /\ colOut' = uniqueColumns(sanitizedColumns(colOut))
  /\ colPass' = 2
  /\ UNCHANGED <<cellVars, importVars, dialog, grid, infer, moreVars>>

NamesOver(chars, len) == UNION {[1..n -> chars] : n \in 0..len}

\* headers of up to MaxCols names made of letters, digits and underscores
PlainHeaders == UNION {[1..n -> NamesOver(PlainChars, MaxNameLen)] : n \in 0..MaxCols}

\* headers of plain names "a" but for one field, which is any name
MixedHeaders ==
  {[i \in 1..n |-> IF i = k THEN name ELSE <<"a">>] :
     n \in 1..MaxCols, k \in 1..MaxCols, name \in NamesOver(NameChars, MaxNameLen)}

NamesNext == nameColumns \/ renameColumns

(***************************************************************************)
(* lib/duckdb.ts: the module variables db and conn, and up to MaxCalls     *)
(* calls of initDuckDB, getConnection and executeQuery, each running to    *)
(* its next await.  duck.db and duck.conn are 0 for null, else the number  *)
(* of the engine instance and of the connection; duck.engines and          *)
(* duck.connections count what was created.  A call that has ended holds   *)
(* in result the connection it returned or ran its query on.               *)
(***************************************************************************)
CallKinds == {"initDuckDB", "getConnection", "executeQuery"}

\* initDuckDB up to its first await: if (db) return { db, conn: conn! }
enterInit(p, kind) ==
  IF duck.db # 0
  THEN IF kind = "initDuckDB"
       THEN [duck.proc[p] EXCEPT !.kind = kind, !.pc = "done", !.result = duck.conn]
       ELSE [duck.proc[p] EXCEPT !.kind = kind, !.pc = "resume"]
  ELSE [duck.proc[p] EXCEPT !.kind = kind, !.pc = "selectBundle"]

\* a call starts: if (!conn) await initDuckDB(), else conn is used at once
duckCall(p, kind) ==
  /\ duck.proc[p].pc = "idle"
  /\ \A q \in 1..(p - 1) : duck.proc[q].pc # "idle"
  /\ duck' = [duck EXCEPT !.proc[p] =
                IF kind # "initDuckDB" /\ duck.conn # 0
                THEN [@ EXCEPT !.kind = kind, !.pc = "done", !.result = duck.conn]
                ELSE enterInit(p, kind)]
  /\ UNCHANGED <<cellVars, importVars, nameVars, dialog, grid, infer, ai, store>>

\* selectBundle has answered: db = new duckdb.AsyncDuckDB(logger, worker),
\* then await db.instantiate(...)
bundleSelected(p) ==
  /\ duck.proc[p].pc = "selectBundle"
  /\ duck' = [duck EXCEPT !.engines = @ + 1, !.db = duck.engines + 1,
                          !.proc[p].pc = "instantiate"]
  /\ UNCHANGED <<cellVars, importVars, nameVars, dialog, grid, infer, ai, store>>

\* instantiate has answered: db.connect() is called on the db of this moment
instantiated(p) ==
  /\ duck.proc[p].pc = "instantiate"
  /\ duck' = [duck EXCEPT !.connections = @ + 1,
                          !.proc[p].handle = duck.connections + 1,
                          !.proc[p].pc = "connect"]
  /\ UNCHANGED <<cellVars, importVars, nameVars, dialog, grid, infer, ai, store>>

\* connect has answered: conn = ...; return { db, conn }
connected(p) ==
  /\ duck.proc[p].pc = "connect"
  /\ duck' = [duck EXCEPT
       !.conn = duck.proc[p].handle,
       !.proc[p] = IF @.kind = "initDuckDB"
                   THEN [@ EXCEPT !.pc = "done", !.result = duck.proc[p].handle]
                   ELSE [@ EXCEPT !.pc = "resume"]]
  /\ UNCHANGED <<cellVars, importVars, nameVars, dialog, grid, infer, ai, store>>

\* after await initDuckDB(): return conn!, or conn!.query(query)
initAwaited(p) ==
  /\ duck.proc[p].pc = "resume"
  /\ duck' = [duck EXCEPT !.proc[p].pc = "done", !.proc[p].result = duck.conn]
  /\ UNCHANGED <<cellVars, importVars, nameVars, dialog, grid, infer, ai, store>>

DuckInit ==
  /\ CellInit
  /\ batching = FALSE
  /\ ImportIdle
  /\ ToolIdle

DuckNext ==
  \/ \E p \in 1..MaxCalls : \E kind \in CallKinds : duckCall(p, kind)
  \/ \E p \in 1..MaxCalls : bundleSelected(p)
  \/ \E p \in 1..MaxCalls : instantiated(p)
  \/ \E p \in 1..MaxCalls : connected(p)
  \/ \E p \in 1..MaxCalls : initAwaited(p)

(***************************************************************************)
(* AISettingsDialog.  ai.request is the provider, API key and base URL the *)
(* fetch in flight was made with (<<>>: none in flight); ai.tested (a      *)
(* history value) is those of the last test that succeeded; ai.saved is    *)
(* what onSave was called with.                                            *)
(***************************************************************************)
Providers == {"openai", "custom"}
ApiKeys == {"", "sk-1", "sk-2"}
BaseUrls == {"", "https://a.example/v1"}
Models == {"", "m"}

\* PROVIDER_CONFIGS[provider]
PROVIDER_CONFIGS(provider) ==
  IF provider = "openai"
  THEN [baseUrl |-> "https://api.openai.com/v1", defaultModel |-> "gpt-4o-mini"]
  ELSE [baseUrl |-> "", defaultModel |-> ""]

handleProviderChange(newProvider) ==
  /\ ai' = [ai EXCEPT !.provider = newProvider,
                      !.baseUrl = PROVIDER_CONFIGS(newProvider).baseUrl,
                      !.model = PROVIDER_CONFIGS(newProvider).defaultModel,
                      !.testSuccess = FALSE]
  /\ UNCHANGED <<cellVars, importVars, nameVars, dialog, grid, infer, duck, store>>

\* onChange of the API key input
setApiKey(value) ==
  /\ ai' = [ai EXCEPT !.apiKey = value, !.testSuccess = FALSE]
  /\ UNCHANGED <<cellVars, importVars, nameVars, dialog, grid, infer, duck, store>>

\* onChange of the base URL input, disabled unless the provider is custom
setBaseUrl(value) ==
  /\ ai.provider = "custom"
  /\ ai' = [ai EXCEPT !.baseUrl = value, !.testSuccess = FALSE]
  /\ UNCHANGED <<cellVars, importVars, nameVars, dialog, grid, infer, duck, store>>

\* onChange of the model input shown for the custom provider
setCustomModel(value) ==
  /\ ai.provider = "custom"
  /\ ai' = [ai EXCEPT !.customModel = value]
  /\ UNCHANGED <<cellVars, importVars, nameVars, dialog, grid, infer, duck, store>>

\* the Test Connection button, disabled={isTesting || !apiKey.trim()}: up
\* to await fetch(testUrl, { headers })
handleTestConnection ==
  /\ ~ai.isTesting
  /\ ai.apiKey # ""
  /\ ai' = [ai EXCEPT !.isTesting = TRUE, !.testSuccess = FALSE,
                      !.request = <<ai.provider, ai.apiKey, ai.baseUrl>>]
  /\ UNCHANGED <<cellVars, importVars, nameVars, dialog, grid, infer, duck, store>>

\* the fetch is back: response.ok, or not ok, or it threw; then the finally
testAnswered(ok) ==
  /\ ai.request # <<>>
  /\ ai' = [ai EXCEPT !.isTesting = FALSE,
                      !.testSuccess = IF ok THEN TRUE ELSE @,
                      !.tested = IF ok THEN ai.request ELSE @,
                      !.request = <<>>,
                      !.toast = IF ok THEN "Connection successful!" ELSE "Connection failed"]
  /\ UNCHANGED <<cellVars, importVars, nameVars, dialog, grid, infer, duck, store>>

\* the Save Settings button, disabled={!testSuccess}
handleSave ==
  /\ ai.testSuccess
  /\ LET finalModel == IF ai.provider = "custom" THEN ai.customModel ELSE ai.model
     IN IF ai.apiKey = ""
        THEN ai' = [ai EXCEPT !.toast = "Please enter an API key"]
        ELSE IF finalModel = ""
        THEN ai' = [ai EXCEPT !.toast = "Please select or enter a model"]
        ELSE ai' = [ai EXCEPT !.saved = <<ai.provider, ai.apiKey, ai.baseUrl>>,
                              !.toast = "AI settings saved!"]
  /\ UNCHANGED <<cellVars, importVars, nameVars, dialog, grid, infer, duck, store>>

AINext ==
  \/ \E newProvider \in Providers : handleProviderChange(newProvider)
  \/ \E value \in ApiKeys : setApiKey(value)
  \/ \E value \in BaseUrls : setBaseUrl(value)
  \/ \E value \in Models : setCustomModel(value)
  \/ handleTestConnection
  \/ \E ok \in BOOLEAN : testAnswered(ok)
  \/ handleSave

(***************************************************************************)
(* The notebook store.  store.list is the array under the storage key, a   *)
(* notebook being its id, title and cells; an id is the pair of Date.now() *)
(* and the Math.random() suffix.  store.now is the clock.  History values: *)
(* store.known, the ids handed out; store.docs, for each id created or     *)
(* saved and not deleted since, the notebook of the latest such call;      *)
(* store.last, the last call and its id.                                   *)
(***************************************************************************)
\* Math.random().toString(36).slice(2, 8)
Suffixes == {"a", "b"}
Titles == {"A", "B"}
CellLists == {<<>>, <<"c">>}

ids(list) == {list[i].id : i \in 1..Len(list)}

\* all = readStore().filter(n => n.id !== id)
without(list, id) == SelectSeq(list, LAMBDA n : n.id # id)

\* readStore().find(n => n.id === id)
getNotebook(id) ==
  LET at == {i \in 1..Len(store.list) : store.list[i].id = id}
  IN store.list[CHOOSE i \in at : \A j \in at : i <= j]

\* history: the notebook nb is the latest created or saved under its id
noted(docs, nb) == {d \in docs : d.id # nb.id} \cup {nb}

\* the clock moves on
tick ==
  /\ store.now < MaxTicks
  /\ store' = [store EXCEPT !.now = @ + 1, !.last = <<>>]
  /\ UNCHANGED <<cellVars, importVars, nameVars, dialog, grid, infer, duck, ai>>

createNotebook(title, suffix) ==
  /\ Len(store.list) < MaxNotebooks
  /\ LET nb == [id |-> <<store.now, suffix>>, title |-> title, cells |-> <<>>]
     IN store' = [store EXCEPT !.list = <<nb>> \o @,
                               !.known = @ \cup {nb.id},
                               !.docs = noted(@, nb),
                               !.last = <<"create", nb.id>>]
  /\ UNCHANGED <<cellVars, importVars, nameVars, dialog, grid, infer, duck, ai>>

\* deleted in a manager, the id being one of the list it shows
deleteNotebook(id) ==
  /\ id \in ids(store.list)
  /\ store' = [store EXCEPT !.list = without(@, id),
                            !.docs = {d \in @ : d.id # id},
                            !.last = <<"delete", id>>]
  /\ UNCHANGED <<cellVars, importVars, nameVars, dialog, grid, infer, duck, ai>>

\* saved by an editor that got the notebook from getNotebook earlier
saveNotebook(nb) ==
  /\ nb.id \in store.known
  /\ Len(without(store.list, nb.id)) < MaxNotebooks
  /\ store' = [store EXCEPT !.list = <<nb>> \o without(@, nb.id),
                            !.docs = noted(@, nb),
                            !.last = <<"save", nb.id>>]
  /\ UNCHANGED <<cellVars, importVars, nameVars, dialog, grid, infer, duck, ai>>

\* handleImport for one notebook of the file: createNotebook(nb.title), then
\* existing = getNotebook(newNb.id) with the imported cells is written over
\* every entry of that id (noted as a save of existing)
handleImportNotebook(title, nbCells, suffix) ==
  /\ Len(store.list) < MaxNotebooks
  /\ LET newNb == [id |-> <<store.now, suffix>>, title |-> title, cells |-> <<>>]
         all == <<newNb>> \o store.list
         existing == [newNb EXCEPT !.cells = nbCells]
     IN store' = [store EXCEPT
          !.list = [i \in 1..Len(all) |-> IF all[i].id = newNb.id THEN existing ELSE all[i]],
          !.known = @ \cup {newNb.id},
          !.docs = noted(@, existing),
          !.last = <<"create", newNb.id>>]
  /\ UNCHANGED <<cellVars, importVars, nameVars, dialog, grid, infer, duck, ai>>

Notebooks == [id : store.known, title : Titles, cells : CellLists]

StoreNext ==
  \/ tick
  \/ \E title \in Titles : \E suffix \in Suffixes : createNotebook(title, suffix)
  \/ \E id \in store.known : deleteNotebook(id)
  \/ \E nb \in Notebooks : saveNotebook(nb)
  \/ \E title \in Titles : \E nbCells \in CellLists : \E suffix \in Suffixes :
       handleImportNotebook(title, nbCells, suffix)

vars == <<cellVars, importVars, toolVars>>

StoreSpec == DuckInit /\ [][StoreNext]_vars

AISpec == DuckInit /\ [][AINext]_vars

DuckSpec == DuckInit /\ [][DuckNext]_vars

ColumnsInit ==
  /\ CellInit
  /\ batching = FALSE
  /\ ImportIdle
  /\ colIn \in PlainHeaders
  /\ dialog = NoDialog
  /\ grid = NoGrid
  /\ infer = NoInfer
  /\ MoreIdle
  /\ colSafe = <<>>
  /\ colOut = <<>>
  /\ colPass = 0

\* the name pipeline on every header of plain names
ColumnsSpec == ColumnsInit /\ [][NamesNext]_vars

SanitizeInit ==
  /\ CellInit
  /\ batching = FALSE
  /\ ImportIdle
  /\ colIn \in MixedHeaders
  /\ dialog = NoDialog
  /\ grid = NoGrid
  /\ infer = NoInfer
  /\ MoreIdle
  /\ colSafe = <<>>
  /\ colOut = <<>>
  /\ colPass = 0

\* the name pipeline on headers with a field of any characters
SanitizeSpec == SanitizeInit /\ [][NamesNext]_vars

ImportSpec == ImportInit /\ [][ImportNext]_vars

CatalogSpec == ImportInit /\ [][CatalogNext]_vars

GridSpec == GridInit /\ [][GridNext]_vars

TypeSpec == TypeInit /\ [][columnDefs]_vars

(***************************************************************************)
(* The busy flags, one user-triggered action at a time: a cell that is     *)
(* run, an import from the dialog, or an open table editor.  The engine    *)
(* answers every call, and a handler that awaited an answer continues.     *)
(***************************************************************************)
\* neither the import dialog nor the table editor is open
NoOverlay == pc = "idle" /\ grid = NoGrid

BusyInit ==
  \/ /\ CellInit
     /\ batching = FALSE
     /\ ImportIdle
     /\ ToolIdle
  \/ /\ ImporterInit
     /\ imp.tableName = "t"
     /\ ~imp.catalog0["a b"].exists /\ ~imp.catalog0["a_b"].exists
     /\ ~dialog.large
  \/ /\ GridInit
     /\ grid.table # <<>>
     /\ \A i \in 1..Len(grid.table) : grid.table[i].val = "u"

\* what happens without the user: answers of the engine and continuations
BusyWork ==
  \/ NoOverlay /\ initializeDatabase
  \/ \E c \in calls : \E result \in Results : ExecSuccess(c, result)
  \/ \E c \in calls : ExecFail(c)
  \/ EngineRun
  \/ handleImportCSV
  \/ ImportExists
  \/ ImportDropped
  \/ ImportBatch
  \/ importReturned
  \/ loadTableData
  \/ \E ok \in BOOLEAN : updateAnswered(ok)

BusyNext ==
  \/ NoOverlay /\ initializeDatabase
  \/ NoOverlay /\ \E i \in 1..Len(rendered.cells) : RunClick(i)
  \/ \E c \in calls : \E result \in Results : ExecSuccess(c, result)
  \/ \E c \in calls : ExecFail(c)
  \/ handleImport
  \/ importReturned
  \/ handleImportCSV
  \/ ImportExists
  \/ ImportDropped
  \/ ImportBatch
  \/ EngineRun
  \/ loadTableData
  \/ \E rowIdx \in 1..Len(grid.rows) : handleCellClick(rowIdx)
  \/ \E editValue \in EditValues : handleCellChange(editValue)
  \/ \E ok \in BOOLEAN : updateAnswered(ok)

BusySpec == BusyInit /\ [][BusyNext]_vars /\ WF_vars(BusyWork)

ImporterSpec == ImporterInit /\ [][ImporterNext]_vars

Init == CellInit /\ batching = TRUE /\ ImportIdle /\ ToolIdle

Next == UINext \/ AsyncNext \/ Render

\* any handler may run on the closures of the last commit
Spec == Init /\ [][Next]_vars

\* React commits the render of every state update before the next event is
\* handled: the handlers of a render run on the current state; the closures
\* of mounted editors and of timers stay those of the render they were
\* created in
FlushInit == CellInit /\ batching = FALSE /\ ImportIdle /\ ToolIdle

FlushNext == UINext \/ AsyncNext

FlushSpec == FlushInit /\ [][FlushNext]_vars

(***************************************************************************)
(* The editor specification: one cell, into which a query is typed that is *)
(* a comparison in a WHERE clause, a text of blanks, or a SELECT over      *)
(* parentheses; then every trigger of an execution.                        *)
(***************************************************************************)
\* FROM t WHERE x = <literal>, with blanks, line breaks and parentheses; the
\* texts of up to MaxSqlLen blanks; SELECT and up to MaxSqlLen parentheses
\* and numbers
SqlTexts ==
  {<<"FROM", " ", "t", " ", "WHERE">> \o lhs \o b \o <<"=">> \o c \o <<lit>> :
     lhs \in {<<" ", "x">>, <<"\n", "x">>, <<"(", "x", ")">>, <<" ", "(", "x", ")">>},
     b \in {<<>>, <<" ">>, <<"\n">>},
     c \in {<<>>, <<" ">>, <<"\n">>},
     lit \in {"\"y\"", "'y'"}}
  \cup UNION {[1..n -> Blanks] : n \in 0..MaxSqlLen}
  \cup {<<"SELECT", " ">> \o body :
          body \in UNION {[1..n -> {"(", ")", "1"}] : n \in 0..MaxSqlLen}}

EditorNext ==
  \/ initializeDatabase
  \/ \E i \in 1..Len(rendered.cells) : EditorMount(i)
  \/ \E i \in 1..Len(rendered.cells) : \E q \in SqlTexts :
       handleUpdateCellQuery(rendered.cells[i].id, q)
  \/ \E i \in 1..Len(rendered.cells) : RunClick(i)
  \/ \E m \in mounted : CtrlEnter(m)
  \/ \E t \in DateNow : \E k \in 1..Len(queryHistory) : onRunQuery(t, k)
  \/ TimerFire
  \/ \E c \in calls : \E result \in Results : ExecSuccess(c, result)
  \/ \E c \in calls : ExecFail(c)

EditorSpec == FlushInit /\ [][EditorNext]_vars


(***************************************************************************)
(* Properties of the cell list, the executions and the history log.        *)
(***************************************************************************)
InFlight(r) == \E c \in calls : c.req = r

\* the step is the failure continuation of call c
FailsNow(c) ==
  /\ c \in calls /\ c \notin calls' /\ ~c.copy
  /\ Len(queryHistory') = Len(queryHistory) + 1
  /\ ~queryHistory'[Len(queryHistory')].success

\* the step is the success continuation of call c
SucceedsNow(c) ==
  /\ c \in calls /\ c \notin calls' /\ ~c.copy
  /\ Len(queryHistory') = Len(queryHistory) + 1
  /\ queryHistory'[Len(queryHistory')].success

\* C4: the list of query cells is never empty.
C4_AtLeastOneCell == Len(cells) >= 1

\* C5: when the engine rejects a cell's query, the cell is idle afterwards with
\* the results it had when the execution started, and every other cell is as
\* it was before the step.
C5_FailureRestores ==
  [][\A c \in calls : FailsNow(c) =>
       /\ Len(cells') = Len(cells)
       /\ \A i \in 1..Len(cells) :
            IF cells[i].id = c.cellId
            THEN /\ ~cells'[i].isExecuting
                 /\ \A b \in c.before :
                      b[1] = cells'[i].uid => cells'[i].results = b[2]
            ELSE cells'[i] = cells[i]]_vars

\* C6: no two engine calls for the same cell are in flight together.
C6_NoOverlapPerCell ==
  \A c1, c2 \in calls : c1.cellId = c2.cellId => c1 = c2

\* C7: every request to execute a cell made once the database is initialised
\* has, when it is over, exactly one entry in the history log, and the log
\* lists the requests in the order they were made.
C7_OneEntryPerRequestInOrder ==
  /\ \A r \in 1..Len(logged) :
       (logged[r].counted /\ ~InFlight(r)) => logged[r].entries = 1
  /\ \A i, j \in 1..Len(queryHistory) :
       i < j => queryHistory[i].req < queryHistory[j].req

\* C8: every change of the history log appends one entry at its end or clears
\* the log.
C8_AppendOrClear ==
  [][\/ queryHistory' = queryHistory
     \/ queryHistory' = <<>>
     \/ /\ Len(queryHistory') = Len(queryHistory) + 1
        /\ SubSeq(queryHistory', 1, Len(queryHistory)) = queryHistory]_vars

\* an entry was appended, the log cleared, and another entry appended
C8_Witness ==
  /\ Len(queryHistory) = 1
  /\ \E r1, r2 \in 1..Len(logged) :
       r1 # r2 /\ logged[r1].entries = 1 /\ logged[r2].entries = 1

\* C9: the ids of the cells are pairwise distinct.
C9_DistinctIds ==
  \A i, j \in 1..Len(cells) : cells[i].id = cells[j].id => i = j

\* C10: the results of a cell change only in the success continuation of an
\* execution requested from that cell.
C10_ResultsFrame ==
  [][\A i \in 1..Len(cells) : \A j \in 1..Len(cells') :
       (cells[i].uid = cells'[j].uid /\ cells[i].results # cells'[j].results)
         => \E c \in calls : SucceedsNow(c) /\ c.origin = cells[i].uid]_vars

\* C25: a cell's isExecuting flag is set exactly when an engine call issued
\* for an execution of that cell is in flight.
C25_ExecutingIffInFlight ==
  \A i \in 1..Len(cells) :
    cells[i].isExecuting <=> \E c \in calls : c.origin = cells[i].uid

\* C26: when the timer set by the run action of a history entry fires, the
\* database being initialised and the cell appended for it still there, an
\* engine call starts for that cell with the query the cell holds.
C26_HistoryRunExecutes ==
  [][(/\ timers # <<>>
      /\ timers' = Tail(timers)
      /\ isInitialized
      /\ \E i \in 1..Len(cells) : cells[i].uid = Head(timers).origin)
     => \E c \in calls' \ calls :
          /\ c.origin = Head(timers).origin
          /\ \E i \in 1..Len(cells) :
               cells[i].uid = c.origin /\ c.query = cells[i].query]_vars

\* C27: an engine call started from a cell's editor, by the Run button or by
\* Ctrl/Cmd+Enter, carries the query the cell holds at that moment (the
\* ids of the cells being distinct).
C27_ShortcutRunsCurrentQuery ==
  [][\A c \in calls' \ calls :
       (timers' = timers /\ C9_DistinctIds) =>
         \E i \in 1..Len(cells) : cells[i].uid = c.origin /\ c.query = cells[i].query]_vars

(***************************************************************************)
(* Properties of validation.                                               *)
(***************************************************************************)
\* the text compares with a double-quoted literal after a WHERE
ComparesDoubleQuoted(sql) ==
  \E w \in 1..Len(sql) : \E e \in (w + 1)..Len(sql) : \E q \in (e + 1)..Len(sql) :
    /\ sql[w] = "WHERE"
    /\ sql[e] = "="
    /\ \A k \in (e + 1)..(q - 1) : sql[k] \in Blanks
    /\ sql[q] \in DoubleQuoted

\* every ) closes an earlier ( and every ( is closed
Matched(sql) ==
  /\ countOf(sql, "(") = countOf(sql, ")")
  /\ \A k \in 1..Len(sql) :
       countOf(SubSeq(sql, 1, k), ")") <= countOf(SubSeq(sql, 1, k), "(")

OnlyBlanks(sql) == \A k \in 1..Len(sql) : sql[k] \in Blanks

\* C15: no engine call is made for a query that compares with a
\* double-quoted literal in a WHERE clause, and validation refuses the text
\* of a cell that does, with a suggestion that has no double-quoted literal.
C15_DoubleQuotedRejected ==
  /\ \A c \in calls : ~ComparesDoubleQuoted(c.query)
  /\ \A i \in 1..Len(cells) :
       ComparesDoubleQuoted(cells[i].query) =>
         LET v == validateSQL(cells[i].query)
         IN /\ ~v.valid
            /\ v.suggestion # NoText
            /\ \A k \in 1..Len(v.suggestion) : v.suggestion[k] \notin DoubleQuoted

\* C16: no engine call is made for a query that is empty, only blanks, or
\* has unmatched parentheses, and validation refuses the text of a cell that
\* is one of these.
C16_EmptyOrUnmatchedRejected ==
  /\ \A c \in calls : ~OnlyBlanks(c.query) /\ Matched(c.query)
  /\ \A i \in 1..Len(cells) :
       (OnlyBlanks(cells[i].query) \/ ~Matched(cells[i].query)) =>
         ~validateSQL(cells[i].query).valid

(***************************************************************************)
(* Properties of the import.                                               *)
(***************************************************************************)
\* the table the import writes to
Target == IF imp.path = "file" THEN safeName(imp.tableName) ELSE imp.tableName

Ended == pc \in {"done", "failed"}

\* the INSERT statements of the import, in the order they were sent
Inserts == SelectSeq(sent, LAMBDA s : s.op = "INSERT")

RECURSIVE ConcatRows(_)
ConcatRows(ss) ==
  IF ss = <<>> THEN <<>> ELSE Head(ss).rows \o ConcatRows(Tail(ss))

\* the rows of the file that are in table n
Imported(n) == SelectSeq(catalog[n].rows, LAMBDA r : r > 0)

\* C1: at no time are two INSERT statements of an import outstanding.
C1_OneInsertOutstanding ==
  Cardinality({k \in Pending : sent[k].op = "INSERT"}) <= 1

\* C2: when an import is over, every statement answered, and the INSERT of a
\* batch has failed, the import has reported the failure and the target table
\* holds the rows of the batches sent before the first failed one, in order,
\* and no other row of the file.
C2_FailedBatchLeavesPrefix ==
  (Ended /\ Pending = {} /\ \E k \in 1..Len(Inserts) : Inserts[k].status = "err") =>
    LET f == CHOOSE k \in 1..Len(Inserts) :
               /\ Inserts[k].status = "err"
               /\ \A j \in 1..(k - 1) : Inserts[j].status # "err"
    IN /\ pc = "failed"
       /\ Imported(Target) = ConcatRows(SubSeq(Inserts, 1, f - 1))

\* C3: when the target table exists at the start of an import without
\* overwrite, the catalog and the rows of its tables stay as they were, and
\* the import ends failed with the error that names the table.
C3_ExistingTableRefused ==
  (pc # "idle" /\ imp.catalog0[Target].exists /\ ~imp.overwrite) =>
    /\ catalog = imp.catalog0
    /\ Ended => (pc = "failed" /\ error = TableExists(imp.tableName))

\* every statement of the import has been answered, none with an error
AllSucceeded == \A k \in 1..Len(sent) : sent[k].status = "ok"

\* C13: when an import of N >= 1 rows has ended and no statement has failed,
\* the target table holds exactly the N rows of the input, each once, in
\* input order.
C13_AllRowsOnce ==
  (pc = "done" /\ AllSucceeded /\ imp.n >= 1) => catalog[Target].rows = Rows(1, imp.n)

\* C28: when an import from a File on a connection with registerFileBuffer
\* has ended, either the target table holds the rows of the file and no
\* temporary table exists, or the catalog is as it was before the call.
C28_RegisterPathAtomic ==
  (imp.path = "file" /\ imp.hasRegister /\ Ended) =>
    \/ /\ catalog[Target].exists
       /\ catalog[Target].rows = Rows(1, imp.n)
       /\ ~catalog[tmpTable(Target)].exists
    \/ catalog = imp.catalog0

\* C21: a file larger than the in-memory threshold is never read and parsed
\* whole, and what the dialog starts for it is the import from the File.
C21_LargeFileChunked ==
  dialog.large =>
    /\ ~dialog.readWhole
    /\ pc \notin {"dialog", "idle"} => imp.path = "file"

C17_ListEqualsCatalog ==
  (pc \in {"done", "failed", "deleted", "cellDone"} /\ Pending = {}
     /\ \E k \in 1..Len(sent) : sent[k].op # "SELECT") =>
    tables = {n \in TableNames : catalog[n].exists}

\* C14: when the parse of the chosen file has no data row, the dialog reports
\* that the file is empty and the import handler is not called: no statement
\* is sent and the catalog stays as it was.
C14_EmptyFileRejected ==
  (dialog.chosen /\ imp.n = 0) =>
    /\ pc = "dialog"
    /\ sent = <<>>
    /\ catalog = imp.catalog0
    /\ dialog.toast \in {"none", "CSV file is empty"}

(***************************************************************************)
(* Properties of the notebook store.                                       *)
(***************************************************************************)
\* C30: the stored list holds each id at most once; its notebooks are those
\* of the latest create or save of each id created or saved and not deleted
\* since, and getNotebook returns them; a delete or a save of one id leaves
\* the other notebooks as they were, in the same order.
C30_StoreIsMapOfCalls ==
  /\ [](/\ \A i, j \in 1..Len(store.list) :
            store.list[i].id = store.list[j].id => i = j
        /\ {store.list[i] : i \in 1..Len(store.list)} = store.docs
        /\ \A d \in store.docs : getNotebook(d.id) = d)
  /\ [][(store'.last # <<>> /\ store'.last[1] \in {"delete", "save"}) =>
         without(store'.list, store'.last[2]) = without(store.list, store'.last[2])]_vars

(***************************************************************************)
(* Properties of the AI settings dialog.                                   *)
(***************************************************************************)
\* C29: whenever testSuccess is set, so that the configuration can be
\* saved, the last test that succeeded was made with the provider, API key
\* and base URL the dialog holds.
C29_SavedIsTested ==
  ai.testSuccess => ai.tested = <<ai.provider, ai.apiKey, ai.baseUrl>>

(***************************************************************************)
(* Properties of lib/duckdb.ts.                                            *)
(***************************************************************************)
\* C24: at most one engine instance and one connection are created, and a
\* getConnection or executeQuery that has ended returned, or ran its query
\* on, a connection that is not null.
C24_OneEngineOneConnection ==
  /\ duck.engines <= 1
  /\ duck.connections <= 1
  /\ \A p \in 1..MaxCalls :
       duck.proc[p].pc = "done" /\ duck.proc[p].kind # "initDuckDB"
         => duck.proc[p].result # 0

(***************************************************************************)
(* Properties of the table editor.                                         *)
(***************************************************************************)
\* C18: the UPDATE statements sent are, one for one and in order, those of
\* the committed edits, each with the ROWID of the row edited; and when the
\* last UPDATE has failed and no load is in flight, the page shown is the
\* table of the engine.
C18_OneUpdatePerCommit ==
  /\ [k \in 1..Len(grid.updates) |-> grid.updates[k].rowid] = grid.committed
  /\ (/\ grid.updates # <<>>
      /\ grid.updates[Len(grid.updates)].status = "err"
      /\ grid.loading = -1) => grid.rows = page(grid.table, grid.currentPage)

\* C23: when handleDeleteRows has reported success, the rows that left the
\* table are exactly the rows whose checkboxes were ticked, and the count
\* reported is their number.
C23_DeletesTickedRows ==
  grid.outcome.toast = "Deleted" =>
    /\ grid.outcome.deleted = grid.outcome.ticked
    /\ grid.outcome.reported = Cardinality(grid.outcome.deleted)

(***************************************************************************)
(* Properties of the column types.                                         *)
(***************************************************************************)
\* C20: the type declared for a column is VARCHAR when allVarchar is set;
\* else it follows the value at the least row whose value is neither null
\* nor undefined: INTEGER for an integer, DOUBLE for another number,
\* TIMESTAMP for a Date, VARCHAR for anything else and when there is no
\* such row.
C20_TypeOfFirstValue ==
  infer.type # "none" =>
    LET present == {k \in 1..Len(infer.data) : infer.data[k].kind \notin {"null", "undefined"}}
    IN IF infer.allVarchar \/ present = {} THEN infer.type = "VARCHAR"
       ELSE LET v == infer.data[CHOOSE k \in present : \A j \in present : k <= j]
            IN infer.type = CASE v.kind = "integer" -> "INTEGER"
                              [] v.kind \in {"fraction", "NaN"} -> "DOUBLE"
                              [] v.kind = "Date" -> "TIMESTAMP"
                              [] OTHER -> "VARCHAR"

\* a column whose first rows are null and whose first value is an integer
\* has been declared INTEGER
C20_Witness ==
  /\ infer.type = "INTEGER"
  /\ Len(infer.data) >= 3
  /\ infer.data[1].kind = "null"
  /\ infer.data[2].kind = "integer"
  /\ infer.data[3].kind = "text"

(***************************************************************************)
(* Properties of the column names.                                         *)
(***************************************************************************)
\* C11: the names a table is created with are pairwise distinct, and a name
\* whose sanitized form did not occur before it in the header is that
\* sanitized form unchanged.
C11_UniqueNames ==
  colPass >= 1 =>
    /\ \A i, j \in 1..Len(colOut) : colOut[i] = colOut[j] => i = j
    /\ \A i \in 1..Len(colOut) :
         (\A j \in 1..(i - 1) : colSafe[j] # colSafe[i]) => colOut[i] = colSafe[i]

\* C12: the names computed from the names of a table are those names.
C12_NamesIdempotent == colPass = 2 => colOut = colIn

\* C19: each sanitized name is non-empty, made of letters, digits and
\* underscores, and does not start with a digit; it is the input without its
\* leading and trailing blanks, every other character outside the word
\* characters replaced by an underscore; column_<position> when nothing is
\* left of the input; prefixed with col_ when that starts with a digit.
C19_SanitizedName ==
  colPass >= 1 =>
    \A i \in 1..Len(colIn) :
      LET col == colIn[i]
          out == colSafe[i]
          kept == {k \in 1..Len(col) : col[k] \notin Whitespace}
          first == CHOOSE k \in kept : \A l \in kept : k <= l
          last == CHOOSE k \in kept : \A l \in kept : l <= k
          body == IF kept = {}
                  THEN <<"c", "o", "l", "u", "m", "n", "_">> \o Decimal(i)
                  ELSE [k \in 1..(last - first + 1) |->
                          IF col[first + k - 1] \in WordChars
                          THEN col[first + k - 1] ELSE "_"]
      IN /\ out # <<>>
         /\ \A k \in 1..Len(out) : out[k] \in WordChars
         /\ out[1] \notin Digits
         /\ out = IF body[1] \in Digits THEN <<"c", "o", "l", "_">> \o body ELSE body

\* a name with a leading blank, a digit and a replaced character has been
\* sanitized, and so has a blank name that is not the first of its header
C19_Witness ==
  /\ colPass = 1
  /\ \/ \E i \in 1..Len(colIn) :
          colIn[i] = <<" ", "2", "-">> /\ colSafe[i] = <<"c", "o", "l", "_", "2", "_">>
     \/ \E i \in 2..Len(colIn) :
          colIn[i] = <<" ">> /\ Len(colSafe[i]) = 8

====
